---- MODULE Spec2Model ----
(***************************************************************************)
(* The claim store of the car-insurance client (ClaimsContext.tsx: the     *)
(* reducer, the store operations and the localStorage bridge) and the page *)
(* handlers that call it (NewClaim.tsx, EditClaim.tsx, ClaimDetails.tsx,   *)
(* ClaimsApproval).                                                        *)
(*                                                                         *)
(* Representation.                                                         *)
(*  - A JavaScript object is a TLA+ record; {...a, ...b} is Merge(a, b).   *)
(*  - An optional numeric field that is undefined (or absent) is 0, the    *)
(*    value `x || 3` treats like undefined.                                *)
(*  - A timestamp is the millisecond reading of the clock it was made      *)
(*    from; toISOString keeps the order of the readings.                   *)
(*  - A claim id `claim_${Date.now()}_${suffix}` is <<reading, suffix>>.   *)
(*    Successive Math.random suffixes are taken to be distinct (the id     *)
(*    scheme's collision resistance is assumed, not checked).              *)
(*  - A Set<string> is the duplicate-free sequence of its members in       *)
(*    insertion order, which is what Array.from and iteration observe.     *)
(*  - A localStorage item is [kind, val]: absent, valid JSON text of val,  *)
(*    or text that JSON.parse rejects.                                     *)
(*  - Of a form's nine fields the model keeps policyNumber and            *)
(*    customerName, of an assessment id, type and estimatedCost. Photos    *)
(*    and videos are kept in the state of the forms, not in the drafts and *)
(*    claims made from it. The wizard step and the search and sort of the  *)
(*    approval page are left out: no handler modelled here branches on     *)
(*    them.                                                                *)
(*  - A File is [name, type, result], result being the data URL its        *)
(*    FileReader produces.                                                 *)
(*  - last, added, draftMap and everFailed are history variables: written  *)
(*    by the actions, read by no guard.                                    *)
(***************************************************************************)
EXTENDS Integers, Sequences, FiniteSets, TLC

VARIABLES
  claims,            \* state.claims
  inProgressClaims,  \* state.inProgressClaims
  storage,           \* localStorage: the two items
  mounted,           \* ClaimsProvider is mounted
  dirty,             \* a render changed state.claims or state.inProgressClaims
                     \* and its save effect has not run yet
  now,               \* the last reading of the clock
  rand,              \* the number of Math.random suffixes drawn so far
  page,              \* the route element that is mounted, with its component state
  timers,            \* handleStatusUpdate calls waiting for their one-second timeout
  ops,               \* the calls the behaviour may still make
  last,              \* history: the last operation and its arguments
  added,             \* history: [id, createdAt] of every claim addClaim made
  draftMap,          \* history: for each draft id, the payload of the last
                     \* saveInProgressClaim not followed by a delete, as <<payload>>, or <<>>
  everFailed         \* history: some localStorage.setItem has thrown

vars == <<claims, inProgressClaims, storage, mounted, dirty, now, rand, page, timers, ops,
          last, added, draftMap, everFailed>>

(***************************************************************************)
(* Bounds                                                                  *)
(***************************************************************************)
MaxTime == 2        \* the clock readings are 0..MaxTime
MaxClaims == 2      \* addClaim is not called on a table of MaxClaims claims
MaxOps == 3         \* mutating store calls in a behaviour of SpecStore
MaxPersistOps == 2  \* mutating store calls in a behaviour of SpecPersist
MaxFairOps == 1     \* mutating store calls in a behaviour of SpecPersistFair
MaxStartupOps == 1  \* mutating store calls in a behaviour of SpecStartup
AutoSaveTicks == 2  \* the 30 seconds of the auto-save interval, in quarter minutes
MaxDraftOps == 3    \* user events in a behaviour of SpecDraft
MaxBatch == 2       \* files in one FileList
MaxUploadOps == 2   \* user events in a behaviour of SpecUpload
MaxContentOps == 4  \* user events in a behaviour of SpecContent
MaxAnalysisOps == 4 \* user events in a behaviour of SpecAnalysis
MaxUIOps == 6       \* user events in a behaviour of SpecUI

(***************************************************************************)
(* JavaScript values                                                       *)
(***************************************************************************)
\* {...a, ...b}
Merge(a, b) ==
  [k \in (DOMAIN a) \cup (DOMAIN b) |-> IF k \in DOMAIN b THEN b[k] ELSE a[k]]

Range(s) == {s[i] : i \in 1..Len(s)}

\* table.filter(x => x.id !== id)
WithoutId(table, id) == SelectSeq(table, LAMBDA x : x.id # id)

\* array.find(x => x.id === id): <<the first match>>, or <<>> for undefined
Find(table, id) ==
  LET hits == {i \in 1..Len(table) : table[i].id = id}
  IN IF hits = {} THEN <<>> ELSE <<table[CHOOSE i \in hits : \A j \in hits : i <= j]>>

\* new Set(array): the members in order of first occurrence
RECURSIVE NewSet(_)
NewSet(array) ==
  IF array = <<>> THEN <<>>
  ELSE LET rest == NewSet(SubSeq(array, 1, Len(array) - 1))
           x == array[Len(array)]
       IN IF x \in Range(rest) THEN rest ELSE Append(rest, x)

\* Array.from(set)
ArrayFrom(set) == set

\* set.has(x)
SetHas(set, x) == x \in Range(set)

\* A reading of the clock after the reading t: the same millisecond or a later one.
DateNow(t) == {u \in {t, t + 1} : u <= MaxTime}

\* `claim_${Date.now()}_${Math.random().toString(36).substr(2, 9)}`
ClaimId(t, suffix) == <<t, suffix>>

\* ids no addClaim generates: "missing-id", and one that patches carry
MissingId == <<-1, 0>>
ForeignId == <<-1, 1>>

(***************************************************************************)
(* localStorage items                                                      *)
(***************************************************************************)
NoItem == [kind |-> "absent", val |-> <<>>]
CorruptItem == [kind |-> "corrupt", val |-> <<>>]

JSONstringify(value) == [kind |-> "json", val |-> value]
JSONparse(item) == item.val

\* mutant: the Set is stringified as it is, which JSON renders without its members
inProgressForStorageKeepsSet(drafts) ==
  [i \in 1..Len(drafts) |-> Merge(drafts[i], [approvedAssessments |-> <<>>])]

\* saveToStorage's map: each draft with approvedAssessments as an array
inProgressForStorage(drafts) ==
  [i \in 1..Len(drafts) |->
     Merge(drafts[i], [approvedAssessments |-> ArrayFrom(drafts[i].approvedAssessments)])]

\* loadFromStorage's map: each stored draft with approvedAssessments as a Set
parsedInProgress(stored) ==
  [i \in 1..Len(stored) |->
     Merge(stored[i],
           [approvedAssessments |->
              NewSet(IF "approvedAssessments" \in DOMAIN stored[i]
                     THEN stored[i].approvedAssessments ELSE <<>>)])]

(***************************************************************************)
(* claimsReducer. ts[i] is the reading `new Date()` gives for claims[i]    *)
(* in UPDATE_CLAIM's map (read only where the id matches).                 *)
(***************************************************************************)
\* mutant: the stamp is written before the patch is spread, so the patch's
\* updatedAt wins
updateClaimCaseStampsFirst(cs, payload, ts) ==
  [i \in 1..Len(cs) |->
     IF cs[i].id = payload.id
     THEN Merge(Merge(cs[i], [updatedAt |-> ts[i]]), payload.updates)
     ELSE cs[i]]

\* mutant: the spread order swapped, the claim's own values win over the patch
updateClaimCaseKeepsOld(cs, payload, ts) ==
  [i \in 1..Len(cs) |->
     IF cs[i].id = payload.id
     THEN Merge(Merge(payload.updates, cs[i]), [updatedAt |-> ts[i]])
     ELSE cs[i]]

\* mutant: an id that is absent is inserted
updateClaimCaseUpserts(cs, payload, ts) ==
  IF \E i \in 1..Len(cs) : cs[i].id = payload.id
  THEN [i \in 1..Len(cs) |->
          IF cs[i].id = payload.id
          THEN Merge(Merge(cs[i], payload.updates), [updatedAt |-> ts[i]])
          ELSE cs[i]]
  ELSE Append(cs, Merge(payload.updates, [id |-> payload.id]))

updateClaimCase(cs, payload, ts) ==
  [i \in 1..Len(cs) |->
     IF cs[i].id = payload.id
     THEN Merge(Merge(cs[i], payload.updates), [updatedAt |-> ts[i]])
     ELSE cs[i]]

\* mutant: the draft is appended without removing the one it replaces
saveInProgressCaseAppends(drafts, payload) == Append(drafts, payload)

saveInProgressCase(drafts, payload) ==
  Append(WithoutId(drafts, payload.id), payload)

\* mutant: the new claim is put behind the claims of the table
addClaimCaseAppends(cs, payload) == Append(cs, payload)

\* case 'ADD_CLAIM': [action.payload, ...state.claims]
addClaimCase(cs, payload) == <<payload>> \o cs

claimsReducer(state, action, ts) ==
  CASE action.type = "ADD_CLAIM" ->
         [state EXCEPT !.claims = addClaimCase(state.claims, action.payload)]
    [] action.type = "UPDATE_CLAIM" ->
         [state EXCEPT !.claims = updateClaimCase(state.claims, action.payload, ts)]
    [] action.type = "LOAD_CLAIMS" ->
         [state EXCEPT !.claims = action.payload]
    [] action.type = "SAVE_IN_PROGRESS" ->
         [state EXCEPT !.inProgressClaims =
            saveInProgressCase(state.inProgressClaims, action.payload)]
    [] action.type = "DELETE_IN_PROGRESS" ->
         [state EXCEPT !.inProgressClaims =
            WithoutId(state.inProgressClaims, action.payload)]
    [] action.type = "LOAD_IN_PROGRESS" ->
         [state EXCEPT !.inProgressClaims = action.payload]
    [] OTHER -> state

State == [claims |-> claims, inProgressClaims |-> inProgressClaims]

initialState == [claims |-> <<>>, inProgressClaims |-> <<>>]

NoReadings == <<>>

\* The readings of one UPDATE_CLAIM of id on cs after the reading t: each matching
\* claim reads the clock, not before the match before it; the others read nothing
\* (their entry repeats the reading before).
Readings(cs, id, t) ==
  {ts \in [1..Len(cs) -> t..MaxTime] :
     \A i \in 1..Len(cs) :
       LET before == IF i = 1 THEN t ELSE ts[i - 1]
       IN IF cs[i].id = id THEN ts[i] \in DateNow(before) ELSE ts[i] = before}

LastReading(ts, t) == IF ts = <<>> THEN t ELSE ts[Len(ts)]

(***************************************************************************)
(* The persistence bridge                                                  *)
(***************************************************************************)
\* mutant: an absent claims key is seeded with a sample claim
loadFromStorageSeeds(st) ==
  IF st.claims.kind = "absent"
  THEN <<[type |-> "LOAD_CLAIMS", payload |-> <<[id |-> <<0, 0>>, createdAt |-> 0, updatedAt |-> 0]>>]>>
  ELSE <<>>

\* The actions loadFromStorage dispatches. JSON.parse throwing leaves the try
\* block: what was dispatched before stays dispatched, the rest is skipped.
loadFromStorage(st) ==
  LET loadClaims ==
        IF st.claims.kind = "absent" THEN <<>>
        ELSE <<[type |-> "LOAD_CLAIMS", payload |-> JSONparse(st.claims)]>>
  IN IF st.claims.kind = "corrupt" THEN <<>>
     ELSE IF st.inProgress.kind \in {"absent", "corrupt"} THEN loadClaims
     ELSE loadClaims \o
          <<[type |-> "LOAD_IN_PROGRESS",
             payload |-> parsedInProgress(JSONparse(st.inProgress))]>>

\* mutant: only the claims record is written
saveToStorageClaimsOnly(st, state, failing) ==
  IF failing = 1 THEN st ELSE [st EXCEPT !.claims = JSONstringify(state.claims)]

\* saveToStorage with the state of the render it closes over. failing = 1 or 2:
\* that setItem throws (quota), which ends the try block; 0: both succeed.
saveToStorage(st, state, failing) ==
  IF failing = 1 THEN st
  ELSE LET first == [st EXCEPT !.claims = JSONstringify(state.claims)]
       IN IF failing = 2 THEN first
          ELSE [first EXCEPT !.inProgress =
                  JSONstringify(inProgressForStorage(state.inProgressClaims))]

\* the state after the dispatched actions, in order
RECURSIVE Dispatch(_, _)
Dispatch(state, actions) ==
  IF actions = <<>> THEN state
  ELSE Dispatch(claimsReducer(state, Head(actions), NoReadings), Tail(actions))

(***************************************************************************)
(* Inputs of the store operations                                          *)
(***************************************************************************)
\* what callers pass to addClaim (Omit<Claim, 'id' | 'createdAt' | 'updatedAt'>)
FieldSets ==
  {[policyNumber |-> p, status |-> "pending", damageAssessments |-> <<>>,
    totalEstimatedCost |-> 0, processingTime |-> 3] : p \in {"POL-1", "POL-2"}}

\* Partial<Claim> patches: the shapes the pages pass, and two more the type allows
Patches ==
  { [status |-> "approved"],
    [status |-> "processing", processingTime |-> 3],
    [policyNumber |-> "POL-2", totalEstimatedCost |-> 5, updatedAt |-> 0],
    [id |-> ForeignId],
    [createdAt |-> 0] }

DraftIds == {"s1", "s2"}

DraftPayloads ==
  {[id |-> d, formData |-> p.formData, damageAssessments |-> <<>>, analysisComplete |-> FALSE,
    approvedAssessments |-> p.approved, lastSaved |-> 0] :
     d \in DraftIds,
     p \in {[formData |-> [policyNumber |-> "POL-1"], approved |-> <<>>],
            [formData |-> [customerName |-> "A"], approved |-> <<"a", "b">>],
            [formData |-> [policyNumber |-> "POL-1"], approved |-> <<"b", "a">>]}}

EmptyStorage == [claims |-> NoItem, inProgress |-> NoItem]

\* what a page load may find: nothing, or a draft written by an earlier session
InitialStorages ==
  {EmptyStorage,
   [claims |-> NoItem,
    inProgress |-> JSONstringify(<<[id |-> "s1", formData |-> [policyNumber |-> "POL-1"],
                                    damageAssessments |-> <<>>, analysisComplete |-> FALSE,
                                    approvedAssessments |-> <<"b", "a", "b">>,
                                    lastSaved |-> 0]>>)]}

NoDrafts == [d \in DraftIds |-> <<>>]

\* what a page load may find under each key: nothing, text JSON.parse rejects, or
\* a table an earlier session wrote
StartupStorages ==
  [claims : {NoItem, CorruptItem,
             JSONstringify(<<[id |-> ClaimId(0, 0), createdAt |-> 0, updatedAt |-> 0,
                              policyNumber |-> "POL-1", status |-> "pending",
                              damageAssessments |-> <<>>, totalEstimatedCost |-> 0,
                              processingTime |-> 3]>>)},
   inProgress : {NoItem, CorruptItem,
                 JSONstringify(<<[id |-> "s1", formData |-> [policyNumber |-> "POL-1"],
                                  damageAssessments |-> <<>>, analysisComplete |-> FALSE,
                                  approvedAssessments |-> <<"a", "b">>,
                                  lastSaved |-> 0]>>)}]

\* the element of route "/"; the store reads no page state
Dashboard == [route |-> "/"]

(***************************************************************************)
(* Actions of the store                                                    *)
(***************************************************************************)
\* A page load: a fresh ClaimsProvider mounts on initialState. Its load effect
\* reads storage and dispatches; its save effect then runs with the state of the
\* first render (the empty tables); the dispatched actions give the next render.
\* A page is not reloaded between a render and its effects.
ProviderMounts ==
  /\ ~dirty
  /\ \E failing \in 0..2 :
       LET actions == loadFromStorage(storage)
           after == Dispatch(initialState, actions)
       IN /\ storage' = saveToStorage(storage, initialState, failing)
          /\ claims' = after.claims
          /\ inProgressClaims' = after.inProgressClaims
          /\ dirty' = (actions # <<>>)
          /\ last' = [op |-> "mount", failing |-> failing,
                      found |-> [claims |-> storage.claims.kind,
                                 inProgress |-> storage.inProgress.kind]]
          /\ everFailed' = (everFailed \/ failing # 0)
  /\ mounted' = TRUE
  /\ UNCHANGED <<now, rand, timers, ops, added, draftMap>>

\* a page load at the dashboard, which keeps no state
MountProvider == ProviderMounts /\ UNCHANGED page

\* mutant: a failed write reloads the tables from storage
SaveEffectRollsBack ==
  /\ mounted
  /\ dirty
  /\ \E failing \in 0..2 :
       LET after == IF failing = 0 THEN State
                    ELSE Dispatch(initialState, loadFromStorage(storage))
       IN /\ storage' = saveToStorage(storage, State, failing)
          /\ claims' = after.claims
          /\ inProgressClaims' = after.inProgressClaims
          /\ last' = [op |-> "save", failing |-> failing]
          /\ everFailed' = (everFailed \/ failing # 0)
  /\ dirty' = FALSE
  /\ UNCHANGED <<mounted, now, rand, page, timers, ops, added, draftMap>>

\* The save effect of a render that changed one of the tables.
SaveEffect ==
  /\ mounted
  /\ dirty
  /\ \E failing \in 0..2 :
       /\ storage' = saveToStorage(storage, State, failing)
       /\ last' = [op |-> "save", failing |-> failing]
       /\ everFailed' = (everFailed \/ failing # 0)
  /\ dirty' = FALSE
  /\ UNCHANGED <<claims, inProgressClaims, mounted, now, rand, page, timers, ops, added, draftMap>>

\* addClaim(claimData): three readings of the clock, in the order of the literal
addClaim(claimData, tId, tCreated, tUpdated, suffix) ==
  Merge(claimData,
        [id |-> ClaimId(tId, suffix), createdAt |-> tCreated, updatedAt |-> tUpdated])

AddClaim ==
  /\ mounted
  /\ ops > 0
  /\ Len(claims) < MaxClaims
  /\ \E claimData \in FieldSets :
     \E tId \in DateNow(now) : \E tCreated \in DateNow(tId) : \E tUpdated \in DateNow(tCreated) :
       LET newClaim == addClaim(claimData, tId, tCreated, tUpdated, rand + 1)
           after == claimsReducer(State, [type |-> "ADD_CLAIM", payload |-> newClaim], NoReadings)
       IN /\ claims' = after.claims
          /\ inProgressClaims' = after.inProgressClaims
          /\ now' = tUpdated
          /\ last' = [op |-> "addClaim", claimData |-> claimData]
          /\ added' = added \cup {[id |-> newClaim.id, createdAt |-> newClaim.createdAt]}
  /\ rand' = rand + 1
  /\ dirty' = TRUE
  /\ ops' = ops - 1
  /\ UNCHANGED <<storage, mounted, page, timers, draftMap, everFailed>>

\* updateClaim(id, updates)
UpdateClaim ==
  /\ mounted
  /\ ops > 0
  /\ \E id \in {c.id : c \in Range(claims)} \cup {MissingId} :
     \E updates \in Patches :
     \E ts \in Readings(claims, id, now) :
       LET after == claimsReducer(State,
                      [type |-> "UPDATE_CLAIM", payload |-> [id |-> id, updates |-> updates]], ts)
       IN /\ claims' = after.claims
          /\ inProgressClaims' = after.inProgressClaims
          /\ now' = LastReading(ts, now)
          /\ last' = [op |-> "updateClaim", id |-> id, updates |-> updates]
  /\ dirty' = TRUE
  /\ ops' = ops - 1
  /\ UNCHANGED <<storage, mounted, rand, page, timers, added, draftMap, everFailed>>

\* saveInProgressClaim(draft)
SaveInProgressClaim ==
  /\ mounted
  /\ ops > 0
  /\ \E draft \in DraftPayloads :
       LET after == claimsReducer(State, [type |-> "SAVE_IN_PROGRESS", payload |-> draft],
                                  NoReadings)
       IN /\ claims' = after.claims
          /\ inProgressClaims' = after.inProgressClaims
          /\ last' = [op |-> "saveInProgressClaim", draft |-> draft,
                      replaced |-> (Find(inProgressClaims, draft.id) # <<>>)]
          /\ draftMap' = [draftMap EXCEPT ![draft.id] = <<draft>>]
  /\ dirty' = TRUE
  /\ ops' = ops - 1
  /\ UNCHANGED <<storage, mounted, now, rand, page, timers, added, everFailed>>

\* deleteInProgressClaim(id)
DeleteInProgressClaim ==
  /\ mounted
  /\ ops > 0
  /\ \E id \in DraftIds :
       LET after == claimsReducer(State, [type |-> "DELETE_IN_PROGRESS", payload |-> id],
                                  NoReadings)
       IN /\ claims' = after.claims
          /\ inProgressClaims' = after.inProgressClaims
          /\ last' = [op |-> "deleteInProgressClaim", draftId |-> id,
                      present |-> (Find(inProgressClaims, id) # <<>>)]
          /\ draftMap' = [draftMap EXCEPT ![id] = <<>>]
  /\ dirty' = TRUE
  /\ ops' = ops - 1
  /\ UNCHANGED <<storage, mounted, now, rand, page, timers, added, everFailed>>

getClaim(id) == Find(claims, id)
getInProgressClaim(id) == Find(inProgressClaims, id)

(***************************************************************************)
(* The pages                                                               *)
(***************************************************************************)
\* NewClaim's sessionId
sessionId == "new-claim-session"

\* `damage_${Date.now()}_${suffix}_${k}`
AssessmentId(t, suffix, k) == <<t, suffix, k>>

\* mutant: the batch has two assessments
mockAssessmentsTwo(t, r) ==
  << [id |-> AssessmentId(t, r + 1, 1), type |-> "dent", estimatedCost |-> 850],
     [id |-> AssessmentId(t, r + 2, 2), type |-> "scratch", estimatedCost |-> 320] >>

\* simulateAIAnalysis's mockAssessments, after r suffixes were drawn; of an
\* assessment the model keeps id, type and estimatedCost
mockAssessments(t, r) ==
  << [id |-> AssessmentId(t, r + 1, 1), type |-> "dent", estimatedCost |-> 850],
     [id |-> AssessmentId(t, r + 2, 2), type |-> "scratch", estimatedCost |-> 320],
     [id |-> AssessmentId(t, r + 3, 3), type |-> "paint", estimatedCost |-> 450] >>

\* assessments.map(a => a.id)
AssessmentIds(assessments) == [i \in 1..Len(assessments) |-> assessments[i].id]

\* mutant: the filter is left out
ApprovedListKeepsAll(assessments, approved) == assessments

\* assessments.filter(assessment => approvedAssessments.has(assessment.id))
ApprovedList(assessments, approved) ==
  SelectSeq(assessments, LAMBDA a : SetHas(approved, a.id))

\* assessments.reduce((sum, assessment) => sum + assessment.estimatedCost, 0)
RECURSIVE SumCost(_)
SumCost(assessments) ==
  IF assessments = <<>> THEN 0
  ELSE SumCost(SubSeq(assessments, 1, Len(assessments) - 1))
         + assessments[Len(assessments)].estimatedCost

\* the toggle of a Set member: delete it if present, add it at the end if not
Toggle(set, x) ==
  IF SetHas(set, x) THEN SelectSeq(set, LAMBDA y : y # x) ELSE Append(set, x)

\* of the eight required fields of the forms the model keeps two
emptyFormData == [policyNumber |-> "", customerName |-> ""]

FormInputs ==
  {[name |-> "policyNumber", value |-> v] : v \in {"", "POL-1"}}
    \cup {[name |-> "customerName", value |-> v] : v \in {"", "A"}}

\* the required fields of validateForm that the model keeps, with their messages
RequiredFields ==
  [policyNumber |-> "Policy number is required", customerName |-> "Customer name is required"]

\* newErrors of validateForm: a message for each required field that is empty
newErrors(formData) ==
  [f \in {g \in DOMAIN RequiredFields : formData[g] = ""} |-> RequiredFields[f]]

\* mutant: validateForm looks at the first field only
validateFormPolicyOnly(formData) == formData.policyNumber # ""

\* validateForm: no required field is empty
validateForm(formData) == DOMAIN newErrors(formData) = {}

\* handleInputChange on errors: the message of the field that is typed in is cleared
clearError(errors, name) ==
  IF name \in DOMAIN errors /\ errors[name] # ""
  THEN Merge(errors, [n \in {name} |-> ""]) ELSE errors

\* NewClaim's state on mount
NewClaimElement ==
  [route |-> "/new-claim", formData |-> emptyFormData, damageAssessments |-> <<>>,
   approvedAssessments |-> <<>>, analysisComplete |-> FALSE, isAnalyzing |-> FALSE,
   hasUnsavedChanges |-> FALSE, elapsed |-> 0, errors |-> <<>>,
   photos |-> <<>>, videos |-> <<>>, uploads |-> <<>>, selectedTicket |-> ""]

\* NewClaim's existingTickets; selectedTicket is the id of the imported one, "" for null
existingTickets ==
  { [id |-> "ticket_001", policyNumber |-> "POL-2024-001", customerName |-> "John Smith",
     photos |-> <<>>, damageAssessments |-> <<>>, aiAnalysisComplete |-> FALSE],
    [id |-> "ticket_002", policyNumber |-> "POL-2024-002", customerName |-> "Sarah Johnson",
     photos |-> <<>>, damageAssessments |-> <<>>, aiAnalysisComplete |-> FALSE],
    [id |-> "ticket_003", policyNumber |-> "POL-2024-003", customerName |-> "Michael Brown",
     photos |-> <<>>, damageAssessments |-> <<>>, aiAnalysisComplete |-> FALSE] }

\* NewClaim's state after handleImportTicket(ticket)
handleImportTicket(p, ticket) ==
  LET withForm == [p EXCEPT !.formData = [policyNumber |-> ticket.policyNumber,
                                          customerName |-> ticket.customerName],
                            !.photos = IF Len(ticket.photos) > 0 THEN ticket.photos ELSE p.photos,
                            !.selectedTicket = ticket.id]
  IN IF Len(ticket.damageAssessments) > 0
     THEN [withForm EXCEPT !.damageAssessments = ticket.damageAssessments,
                           !.analysisComplete = ticket.aiAnalysisComplete,
                           !.approvedAssessments =
                              NewSet(AssessmentIds(ticket.damageAssessments))]
     ELSE withForm

\* mutant: clearImportedData leaves the approvals
clearImportedDataKeepsApproved(p) ==
  [p EXCEPT !.formData = emptyFormData, !.photos = <<>>, !.videos = <<>>,
            !.damageAssessments = <<>>, !.analysisComplete = FALSE,
            !.selectedTicket = ""]

\* NewClaim's state after clearImportedData
clearImportedData(p) ==
  [p EXCEPT !.formData = emptyFormData, !.photos = <<>>, !.videos = <<>>,
            !.damageAssessments = <<>>, !.analysisComplete = FALSE,
            !.selectedTicket = "", !.approvedAssessments = <<>>]

\* NewClaim's auto-save effect: when one of its dependencies is a new value the
\* cleanup clears the interval and the effect sets a new one. elapsed counts the
\* quarter minutes since the interval was set or last fired.
autoSaveEffect(p) == [p EXCEPT !.elapsed = 0]

\* NewClaim's effect on [sessionId, getInProgressClaim]: it runs on mount and after
\* every render of the provider, which makes a new getInProgressClaim
loadSavedEffect(p, drafts) ==
  LET savedData == Find(drafts, sessionId)
  IN IF savedData = <<>> THEN p
     ELSE [p EXCEPT !.formData = Merge(p.formData, savedData[1].formData),
                    !.damageAssessments = savedData[1].damageAssessments,
                    !.analysisComplete = savedData[1].analysisComplete,
                    !.approvedAssessments = savedData[1].approvedAssessments,
                    !.hasUnsavedChanges = FALSE]

\* the draft saveProgress builds from NewClaim's state
inProgressData(p, t) ==
  [id |-> sessionId, formData |-> p.formData, damageAssessments |-> p.damageAssessments,
   analysisComplete |-> p.analysisComplete, approvedAssessments |-> p.approvedAssessments,
   lastSaved |-> t]

\* the newClaim literal of NewClaim's handleSubmit
newClaim(p) ==
  LET approvedAssessmentsList == ApprovedList(p.damageAssessments, p.approvedAssessments)
  IN Merge(p.formData,
           [status |-> "pending",
            damageAssessments |-> approvedAssessmentsList,
            totalEstimatedCost |-> SumCost(approvedAssessmentsList),
            repairShopId |-> "shop_001",
            aiAnalysisComplete |-> p.analysisComplete,
            processingTime |-> IF p.isAnalyzing THEN 0 ELSE 3])

\* EditClaim's state on mount
EditClaimElement(id) ==
  [route |-> "/edit-claim", claimId |-> id, formData |-> emptyFormData,
   damageAssessments |-> <<>>, approvedAssessments |-> <<>>, analysisComplete |-> FALSE,
   isAnalyzing |-> FALSE, errors |-> <<>>, photos |-> <<>>, videos |-> <<>>, uploads |-> <<>>]

\* EditClaim's effect on [existingClaim]: it runs on mount and when the claim of the
\* route is replaced in the table
initEffect(p, existingClaim) ==
  IF existingClaim = <<>> THEN p
  ELSE LET c == existingClaim[1]
       IN [p EXCEPT !.formData = [policyNumber |-> c.policyNumber,
                                  customerName |-> c.customerName],
                    !.damageAssessments = c.damageAssessments,
                    !.analysisComplete = c.aiAnalysisComplete,
                    !.approvedAssessments =
                       IF Len(c.damageAssessments) > 0
                       THEN NewSet(AssessmentIds(c.damageAssessments))
                       ELSE p.approvedAssessments]

\* the updatedClaim literal of EditClaim's handleSubmit
updatedClaim(p, t) ==
  Merge(p.formData,
        [damageAssessments |-> p.damageAssessments,
         totalEstimatedCost |-> SumCost(ApprovedList(p.damageAssessments, p.approvedAssessments)),
         aiAnalysisComplete |-> p.analysisComplete,
         updatedAt |-> t])

ClaimDetailsElement(id) == [route |-> "/claim", claimId |-> id, isUpdating |-> FALSE]

\* the status buttons ClaimDetails shows for a claim
StatusButtons(status) ==
  CASE status = "pending" -> {"processing", "approved", "rejected"}
    [] status = "processing" -> {"approved", "rejected"}
    [] OTHER -> {}

ClaimsApprovalElement ==
  [route |-> "/claims-approval", statusFilter |-> "all", selectedClaims |-> <<>>]

\* ClaimsApproval's filteredClaims with an empty search term, as listed
filteredClaims(p, cs) ==
  SelectSeq(cs, LAMBDA c : p.statusFilter = "all" \/ c.status = p.statusFilter)

\* the element a page load mounts for the route of p
Fresh(p) ==
  CASE p.route = "/new-claim" -> NewClaimElement
    [] p.route = "/edit-claim" -> EditClaimElement(p.claimId)
    [] p.route = "/claim" -> ClaimDetailsElement(p.claimId)
    [] p.route = "/claims-approval" -> ClaimsApprovalElement
    [] OTHER -> Dashboard

\* mutant: the page's effects run on its mount only
pageEffectsOnMountOnly(p, cs, drafts, replaced) == p

\* the effects of the mounted page that run after the provider rendered a new
\* state; replaced is the set of ids of the claims the reducer replaced
pageEffects(p, cs, drafts, replaced) ==
  CASE p.route = "/new-claim" -> autoSaveEffect(loadSavedEffect(p, drafts))
    [] p.route = "/edit-claim" /\ p.claimId \in replaced -> initEffect(p, Find(cs, p.claimId))
    [] OTHER -> p

\* ClaimDetails unmounts: what its pending timeouts set is set on no component
Unmount(ts) == [i \in 1..Len(ts) |-> [ts[i] EXCEPT !.live = FALSE]]

\* a table and clock after selectedClaims.forEach(claimId => updateClaim(claimId, ...)):
\* each call reads the clock for its patch, each reducer run for its stamp
RECURSIVE BulkOutcomes(_, _, _, _)
BulkOutcomes(cs, ids, status, t) ==
  IF ids = <<>> THEN {[claims |-> cs, now |-> t]}
  ELSE UNION { UNION { BulkOutcomes(
                         updateClaimCase(cs, [id |-> Head(ids),
                                              updates |-> [status |-> status, updatedAt |-> t0]], ts),
                         Tail(ids), status, LastReading(ts, t0))
                       : ts \in Readings(cs, Head(ids), t0) }
               : t0 \in DateNow(t) }

\* claims and a draft that an earlier session left in storage
EarlierClaim ==
  addClaim(newClaim([NewClaimElement EXCEPT
                       !.formData = [policyNumber |-> "POL-1", customerName |-> "A"],
                       !.damageAssessments = mockAssessments(0, -3),
                       !.approvedAssessments = AssessmentIds(mockAssessments(0, -3)),
                       !.analysisComplete = TRUE]),
           0, 0, 0, 0)

EarlierDraft ==
  [id |-> sessionId,
   formData |-> [policyNumber |-> "POL-1", customerName |-> "A"],
   damageAssessments |->
     << [id |-> AssessmentId(0, -6, 1), type |-> "dent", estimatedCost |-> 100],
        [id |-> AssessmentId(0, -5, 2), type |-> "scratch", estimatedCost |-> 200],
        [id |-> AssessmentId(0, -4, 3), type |-> "paint", estimatedCost |-> 300] >>,
   analysisComplete |-> TRUE,
   approvedAssessments |-> <<AssessmentId(0, -6, 1), AssessmentId(0, -4, 3)>>,
   lastSaved |-> 0]

(***************************************************************************)
(* Actions of the pages                                                    *)
(***************************************************************************)
\* a user event on the mounted application; a negative ops is no budget
UserEvent ==
  /\ mounted
  /\ ops # 0
  /\ ops' = IF ops > 0 THEN ops - 1 ELSE ops
  /\ UNCHANGED <<storage, mounted, everFailed>>

NoStoreChange == UNCHANGED <<claims, inProgressClaims, dirty, now, rand, added, draftMap>>

\* a link to another route: the mounted element unmounts, the next one mounts and
\* runs its effects
Navigate ==
  /\ UserEvent
  /\ \E element \in {Dashboard, ClaimsApprovalElement,
                     loadSavedEffect(NewClaimElement, inProgressClaims)}
                      \cup {ClaimDetailsElement(id) : id \in {c.id : c \in Range(claims)}}
                      \cup {initEffect(EditClaimElement(id), getClaim(id)) :
                              id \in {c.id : c \in Range(claims)}} :
       /\ element.route # page.route
       /\ page' = element
       /\ last' = [op |-> "navigate", route |-> element.route]
  /\ timers' = Unmount(timers)
  /\ NoStoreChange

\* A page load at the route of the page that was unloaded: the element mounts and
\* runs its effects on the provider's first render (the empty tables), and runs
\* them again on the render that follows the load effect's dispatches.
LoadPage ==
  /\ ~mounted
  /\ ProviderMounts
  /\ LET element == pageEffects(Fresh(page), <<>>, <<>>, {})
     IN page' = IF loadFromStorage(storage) = <<>> THEN element
                ELSE pageEffects(element, claims', inProgressClaims',
                                 {c.id : c \in Range(claims')})

\* A quarter minute passes on the new-claim page with no change of a dependency of
\* the auto-save effect.
Tick ==
  /\ mounted
  /\ page.route = "/new-claim"
  /\ page.elapsed < AutoSaveTicks
  /\ page' = [page EXCEPT !.elapsed = page.elapsed + 1]
  /\ last' = [op |-> "tick"]
  /\ UNCHANGED <<claims, inProgressClaims, storage, mounted, dirty, now, rand, timers,
                 ops, added, draftMap, everFailed>>

\* NewClaim: the interval callback of the auto-save effect, with the state of the
\* render that set the interval; saveData when hasUnsavedChanges
AutoSave ==
  /\ mounted
  /\ page.route = "/new-claim"
  /\ page.elapsed = AutoSaveTicks
  /\ IF page.hasUnsavedChanges
     THEN /\ \E t \in DateNow(now) :
               LET draft == inProgressData(page, t)
                   after == claimsReducer(State, [type |-> "SAVE_IN_PROGRESS", payload |-> draft],
                                          NoReadings)
               IN /\ claims' = after.claims
                  /\ inProgressClaims' = after.inProgressClaims
                  /\ page' = pageEffects([page EXCEPT !.hasUnsavedChanges = FALSE],
                                         after.claims, after.inProgressClaims, {})
                  /\ draftMap' = [draftMap EXCEPT ![sessionId] = <<draft>>]
                  /\ now' \in DateNow(t)
                  /\ last' = [op |-> "NewClaim.autoSave", draft |-> draft]
          /\ dirty' = TRUE
     ELSE /\ page' = [page EXCEPT !.elapsed = 0]
          /\ last' = [op |-> "NewClaim.autoSaveIdle"]
          /\ UNCHANGED <<claims, inProgressClaims, dirty, now, draftMap>>
  /\ UNCHANGED <<storage, mounted, rand, timers, ops, added, everFailed>>

\* The document is unloaded (reload, close, a typed address). NewClaim's
\* beforeunload listener dispatches the draft when hasUnsavedChanges; whether the
\* render and the save effect that follow a dispatch still run before the document
\* is gone is up to the browser. The session's tables and timers go with it.
\* A page is not unloaded between a render and its effects.
Unload ==
  /\ mounted
  /\ ~dirty
  /\ ops > 0
  /\ ops' = ops - 1
  /\ \E t \in DateNow(now) :
       LET saves == page.route = "/new-claim" /\ page.hasUnsavedChanges
           draft == inProgressData(page, t)
           after == IF saves
                    THEN claimsReducer(State, [type |-> "SAVE_IN_PROGRESS", payload |-> draft],
                                       NoReadings)
                    ELSE State
       IN /\ now' = IF saves THEN t ELSE now
          /\ last' = IF saves THEN [op |-> "unload", saved |-> TRUE, draft |-> draft]
                      ELSE [op |-> "unload", saved |-> FALSE]
          /\ \/ UNCHANGED <<storage, everFailed>>
             \/ /\ saves
                /\ \E failing \in 0..2 :
                     /\ storage' = saveToStorage(storage, after, failing)
                     /\ everFailed' = (everFailed \/ failing # 0)
  /\ claims' = <<>>
  /\ inProgressClaims' = <<>>
  /\ mounted' = FALSE
  /\ dirty' = FALSE
  /\ timers' = <<>>
  /\ page' = Fresh(page)
  /\ draftMap' = [d \in DOMAIN draftMap |-> <<>>]
  /\ UNCHANGED <<rand, added>>

\* NewClaim: handleInputChange
NewClaimInputChange ==
  /\ UserEvent
  /\ page.route = "/new-claim"
  /\ \E input \in FormInputs :
       page' = autoSaveEffect([page EXCEPT !.formData = Merge(page.formData,
                                                              [n \in {input.name} |-> input.value]),
                                           !.errors = clearError(page.errors, input.name),
                                           !.hasUnsavedChanges = TRUE])
  /\ last' = [op |-> "NewClaim.handleInputChange"]
  /\ UNCHANGED timers
  /\ NoStoreChange

\* NewClaim: simulateAIAnalysis up to its await; the button shows when no analysis
\* is complete or running
StartAIAnalysis ==
  /\ UserEvent
  /\ page.route = "/new-claim"
  /\ ~page.analysisComplete /\ ~page.isAnalyzing
  /\ page' = [page EXCEPT !.isAnalyzing = TRUE]
  /\ last' = [op |-> "NewClaim.simulateAIAnalysis"]
  /\ UNCHANGED timers
  /\ NoStoreChange

\* NewClaim: simulateAIAnalysis after its await, on the element that started it
FinishAIAnalysis ==
  /\ mounted
  /\ page.route = "/new-claim"
  /\ page.isAnalyzing
  /\ \E t \in DateNow(now) :
       /\ page' = autoSaveEffect(
                    [page EXCEPT !.damageAssessments = mockAssessments(t, rand),
                                 !.approvedAssessments =
                                    NewSet(AssessmentIds(mockAssessments(t, rand))),
                                 !.analysisComplete = TRUE,
                                 !.isAnalyzing = FALSE])
       /\ now' = t
  /\ rand' = rand + 3
  /\ last' = [op |-> "NewClaim.analysisDone", previous |-> page.damageAssessments]
  /\ UNCHANGED <<claims, inProgressClaims, storage, mounted, dirty, timers, ops,
                 added, draftMap, everFailed>>

\* NewClaim: toggleAssessmentApproval (the list shows when the analysis is complete)
ToggleAssessmentApproval ==
  /\ UserEvent
  /\ page.route = "/new-claim"
  /\ page.analysisComplete
  /\ \E a \in Range(page.damageAssessments) :
       page' = autoSaveEffect(
                 [page EXCEPT !.approvedAssessments = Toggle(page.approvedAssessments, a.id),
                              !.hasUnsavedChanges = TRUE])
  /\ last' = [op |-> "NewClaim.toggleAssessmentApproval"]
  /\ UNCHANGED timers
  /\ NoStoreChange

\* NewClaim: the Approve All button
ApproveAll ==
  /\ UserEvent
  /\ page.route = "/new-claim"
  /\ page.analysisComplete
  /\ page' = autoSaveEffect([page EXCEPT !.approvedAssessments =
                                            NewSet(AssessmentIds(page.damageAssessments))])
  /\ last' = [op |-> "NewClaim.approveAll"]
  /\ UNCHANGED timers
  /\ NoStoreChange

\* NewClaim: the Clear All button
ClearAll ==
  /\ UserEvent
  /\ page.route = "/new-claim"
  /\ page.analysisComplete
  /\ page' = autoSaveEffect([page EXCEPT !.approvedAssessments = <<>>])
  /\ last' = [op |-> "NewClaim.clearAll"]
  /\ UNCHANGED timers
  /\ NoStoreChange

\* NewClaim: handleImportTicket with a ticket of the import dialog
ImportTicket ==
  /\ UserEvent
  /\ page.route = "/new-claim"
  /\ \E ticket \in existingTickets :
       /\ page' = autoSaveEffect(handleImportTicket(page, ticket))
       /\ last' = [op |-> "NewClaim.handleImportTicket", ticket |-> ticket.id]
  /\ UNCHANGED timers
  /\ NoStoreChange

\* NewClaim: clearImportedData (the button shows while a ticket is selected)
ClearImportedData ==
  /\ UserEvent
  /\ page.route = "/new-claim"
  /\ page.selectedTicket # ""
  /\ page' = autoSaveEffect(clearImportedData(page))
  /\ last' = [op |-> "NewClaim.clearImportedData"]
  /\ UNCHANGED timers
  /\ NoStoreChange

\* NewClaim: loadSavedProgress. The button shows while hasSavedProgress, which the
\* load effect sets after every render of the provider to whether the table holds
\* a draft under the session id.
LoadSavedProgress ==
  /\ UserEvent
  /\ page.route = "/new-claim"
  /\ Find(inProgressClaims, sessionId) # <<>>
  /\ page' = autoSaveEffect(loadSavedEffect(page, inProgressClaims))
  /\ last' = [op |-> "NewClaim.loadSavedProgress"]
  /\ UNCHANGED timers
  /\ NoStoreChange

\* NewClaim: saveProgress (the button is disabled unless hasUnsavedChanges); the
\* provider renders and the load effect runs again
SaveProgress ==
  /\ UserEvent
  /\ page.route = "/new-claim"
  /\ page.hasUnsavedChanges
  /\ \E t \in DateNow(now) :
       LET draft == inProgressData(page, t)
           after == claimsReducer(State, [type |-> "SAVE_IN_PROGRESS", payload |-> draft],
                                  NoReadings)
       IN /\ claims' = after.claims
          /\ inProgressClaims' = after.inProgressClaims
          /\ page' = pageEffects([page EXCEPT !.hasUnsavedChanges = FALSE],
                                 after.claims, after.inProgressClaims, {})
          /\ draftMap' = [draftMap EXCEPT ![sessionId] = <<draft>>]
          /\ now' \in DateNow(t)
  /\ dirty' = TRUE
  /\ last' = [op |-> "NewClaim.saveProgress", draft |-> inProgressData(page, now')]
  /\ UNCHANGED <<rand, timers, added>>

\* mutant: handleSubmit without clearSavedProgress
handleSubmitKeepsDraft(claim) == << [type |-> "ADD_CLAIM", payload |-> claim] >>

\* what NewClaim's handleSubmit dispatches: addClaim, then clearSavedProgress
handleSubmitDispatches(claim) ==
  << [type |-> "ADD_CLAIM", payload |-> claim],
     [type |-> "DELETE_IN_PROGRESS", payload |-> sessionId] >>

\* NewClaim: handleSubmit (the button shows when the analysis is complete):
\* validateForm sets the errors; when the form is valid, addClaim,
\* clearSavedProgress, navigate('/')
NewClaimSubmit ==
  /\ UserEvent
  /\ page.route = "/new-claim"
  /\ page.analysisComplete
  /\ IF ~validateForm(page.formData)
     THEN /\ page' = [page EXCEPT !.errors = newErrors(page.formData)]
          /\ last' = [op |-> "NewClaim.handleSubmit.rejected", form |-> page]
          /\ UNCHANGED timers
          /\ NoStoreChange
     ELSE /\ Len(claims) < MaxClaims
          /\ \E tId \in DateNow(now) : \E tCreated \in DateNow(tId) : \E tUpdated \in DateNow(tCreated) :
               LET claim == addClaim(newClaim(page), tId, tCreated, tUpdated, rand + 1)
                   after == Dispatch(State, handleSubmitDispatches(claim))
               IN /\ claims' = after.claims
                  /\ inProgressClaims' = after.inProgressClaims
                  /\ now' = tUpdated
                  /\ added' = added \cup {[id |-> claim.id, createdAt |-> claim.createdAt]}
          /\ rand' = rand + 1
          /\ draftMap' = [draftMap EXCEPT ![sessionId] = <<>>]
          /\ dirty' = TRUE
          /\ page' = Dashboard
          /\ last' = [op |-> "NewClaim.handleSubmit", form |-> page]
          /\ UNCHANGED timers

\* EditClaim: handleInputChange
EditClaimInputChange ==
  /\ UserEvent
  /\ page.route = "/edit-claim"
  /\ \E input \in FormInputs :
       page' = [page EXCEPT !.formData = Merge(page.formData,
                                               [n \in {input.name} |-> input.value]),
                            !.errors = clearError(page.errors, input.name)]
  /\ last' = [op |-> "EditClaim.handleInputChange"]
  /\ UNCHANGED timers
  /\ NoStoreChange

\* EditClaim: handleAssessmentToggle
EditClaimAssessmentToggle ==
  /\ UserEvent
  /\ page.route = "/edit-claim"
  /\ \E a \in Range(page.damageAssessments) :
       page' = [page EXCEPT !.approvedAssessments = Toggle(page.approvedAssessments, a.id)]
  /\ last' = [op |-> "EditClaim.handleAssessmentToggle"]
  /\ UNCHANGED timers
  /\ NoStoreChange

\* EditClaim: simulateAIAnalysis up to its await; the button shows while no analysis
\* is complete and is disabled while one runs or no photo or video is there
EditClaimStartAIAnalysis ==
  /\ UserEvent
  /\ page.route = "/edit-claim"
  /\ ~page.analysisComplete /\ ~page.isAnalyzing
  /\ page.photos # <<>> \/ page.videos # <<>>
  /\ page' = [page EXCEPT !.isAnalyzing = TRUE]
  /\ last' = [op |-> "EditClaim.simulateAIAnalysis"]
  /\ UNCHANGED timers
  /\ NoStoreChange

\* EditClaim: simulateAIAnalysis after its await, on the element that started it
EditClaimFinishAIAnalysis ==
  /\ mounted
  /\ page.route = "/edit-claim"
  /\ page.isAnalyzing
  /\ \E t \in DateNow(now) :
       /\ page' = [page EXCEPT !.damageAssessments = mockAssessments(t, rand),
                               !.approvedAssessments =
                                  NewSet(AssessmentIds(mockAssessments(t, rand))),
                               !.analysisComplete = TRUE,
                               !.isAnalyzing = FALSE]
       /\ now' = t
  /\ rand' = rand + 3
  /\ last' = [op |-> "EditClaim.analysisDone", previous |-> page.damageAssessments]
  /\ UNCHANGED <<claims, inProgressClaims, storage, mounted, dirty, timers, ops,
                 added, draftMap, everFailed>>

\* EditClaim: handleSubmit: validateForm sets the errors; when the form is valid
\* and the claim exists, updateClaim and navigate to the claim
EditClaimSubmit ==
  /\ UserEvent
  /\ page.route = "/edit-claim"
  /\ IF ~validateForm(page.formData) \/ getClaim(page.claimId) = <<>>
     THEN /\ page' = [page EXCEPT !.errors = newErrors(page.formData)]
          /\ last' = [op |-> "EditClaim.handleSubmit.rejected", form |-> page]
          /\ UNCHANGED timers
          /\ NoStoreChange
     ELSE /\ \E t \in DateNow(now) : \E ts \in Readings(claims, page.claimId, t) :
               LET after == claimsReducer(State,
                              [type |-> "UPDATE_CLAIM",
                               payload |-> [id |-> page.claimId, updates |-> updatedClaim(page, t)]], ts)
               IN /\ claims' = after.claims
                  /\ inProgressClaims' = after.inProgressClaims
                  /\ now' = LastReading(ts, t)
                  /\ last' = [op |-> "EditClaim.handleSubmit", form |-> page,
                              updated |-> {page.claimId}, updates |-> updatedClaim(page, t)]
          /\ dirty' = TRUE
          /\ page' = ClaimDetailsElement(page.claimId)
          /\ UNCHANGED <<rand, timers, added, draftMap>>

\* the files a user can pick; result is what the FileReader ends with: no result
\* (here "") is a read that fails, after which onload is not called, or an onload
\* whose e.target.result is empty
Files ==
  { [name |-> "a.png", type |-> "image/png", result |-> "data:a"],
    [name |-> "b.jpg", type |-> "image/jpeg", result |-> "data:b"],
    [name |-> "v.mp4", type |-> "video/mp4", result |-> "data:v"],
    [name |-> "gone.png", type |-> "image/png", result |-> ""] }

\* file.type.startsWith('image/') and file.type.startsWith('video/')
isImage(file) == file.type \in {"image/png", "image/jpeg"}
isVideo(file) == file.type \in {"video/mp4"}

\* the FileLists of a change event of the file input: one to MaxBatch files
FileLists ==
  UNION { {fs \in [1..n -> Files] : \A i, j \in 1..n : fs[i] = fs[j] => i = j}
          : n \in 1..MaxBatch }

\* the closure of one handleMediaUpload call: its FileList, the readers that have
\* not fired onload yet, and newPhotos, newVideos and processedFiles
newUpload(files) ==
  [files |-> files, reading |-> 1..Len(files), newPhotos |-> <<>>, newVideos |-> <<>>,
   processedFiles |-> 0]

\* reader.onload of file i of the upload, up to the test of processedFiles
onload(u, i) ==
  LET file == u.files[i]
  IN IF file.result = "" THEN [u EXCEPT !.reading = u.reading \ {i}]
     ELSE [u EXCEPT !.reading = u.reading \ {i},
                    !.newPhotos = IF isImage(file) THEN Append(u.newPhotos, file.result)
                                  ELSE u.newPhotos,
                    !.newVideos = IF isVideo(file) THEN Append(u.newVideos, file.result)
                                  ELSE u.newVideos,
                    !.processedFiles = u.processedFiles + 1]

\* a sequence without its k-th element
Without(seq, k) == [j \in 1..(Len(seq) - 1) |-> IF j < k THEN seq[j] ELSE seq[j + 1]]

\* NewClaim and EditClaim: handleMediaUpload up to the readAsDataURL calls
HandleMediaUpload ==
  /\ UserEvent
  /\ page.route \in {"/new-claim", "/edit-claim"}
  /\ \E files \in FileLists :
       /\ page' = [page EXCEPT !.uploads = Append(page.uploads, newUpload(files))]
       /\ last' = [op |-> "handleMediaUpload", files |-> files]
  /\ UNCHANGED timers
  /\ NoStoreChange

\* NewClaim and EditClaim: the onload of one reader of one upload; the last one of
\* an upload commits newPhotos and newVideos (NewClaim also sets hasUnsavedChanges)
ReaderOnload ==
  /\ mounted
  /\ page.route \in {"/new-claim", "/edit-claim"}
  /\ \E k \in 1..Len(page.uploads) : \E i \in page.uploads[k].reading :
       LET u == onload(page.uploads[k], i)
           commits == page.uploads[k].files[i].result # ""
                        /\ u.processedFiles = Len(u.files)
           read == [page EXCEPT !.uploads[k] = u]
           committed == [page EXCEPT !.uploads = Without(page.uploads, k),
                                     !.photos = page.photos \o u.newPhotos,
                                     !.videos = page.videos \o u.newVideos]
       IN /\ page' = IF ~commits THEN read
                     ELSE IF page.route = "/new-claim"
                     THEN autoSaveEffect([committed EXCEPT !.hasUnsavedChanges = TRUE])
                     ELSE committed
          /\ last' = [op |-> "FileReader.onload", upload |-> page.uploads[k], file |-> i,
                      committed |-> commits]
  /\ UNCHANGED <<claims, inProgressClaims, storage, mounted, dirty, now, rand, timers, ops,
                 added, draftMap, everFailed>>

\* ClaimDetails: handleStatusUpdate up to its await; the buttons are disabled
\* while isUpdating
StatusButtonClick ==
  /\ UserEvent
  /\ page.route = "/claim"
  /\ ~page.isUpdating
  /\ getClaim(page.claimId) # <<>>
  /\ LET claim == getClaim(page.claimId)[1]
     IN \E newStatus \in StatusButtons(claim.status) :
          timers' = Append(timers, [claimId |-> claim.id, newStatus |-> newStatus,
                                    processingTime |-> claim.processingTime, live |-> TRUE])
  /\ page' = [page EXCEPT !.isUpdating = TRUE]
  /\ last' = [op |-> "ClaimDetails.handleStatusUpdate"]
  /\ NoStoreChange

\* ClaimDetails: handleStatusUpdate after its await, with the claim of the render
\* that was clicked: updateClaim, setIsUpdating(false); then the effects of the
\* page that is mounted now
StatusUpdateTimeout ==
  /\ mounted
  /\ timers # <<>>
  /\ LET timer == Head(timers)
         updates == [status |-> timer.newStatus,
                     processingTime |-> IF timer.processingTime # 0
                                        THEN timer.processingTime ELSE 3]
     IN \E ts \in Readings(claims, timer.claimId, now) :
          LET after == claimsReducer(State,
                         [type |-> "UPDATE_CLAIM",
                          payload |-> [id |-> timer.claimId, updates |-> updates]], ts)
              settled == IF timer.live /\ page.route = "/claim"
                         THEN [page EXCEPT !.isUpdating = FALSE] ELSE page
          IN /\ claims' = after.claims
             /\ inProgressClaims' = after.inProgressClaims
             /\ now' = LastReading(ts, now)
             /\ page' = pageEffects(settled, after.claims, after.inProgressClaims,
                                    {timer.claimId})
  /\ timers' = Tail(timers)
  /\ dirty' = TRUE
  /\ last' = [op |-> "ClaimDetails.statusUpdateDone", updated |-> {Head(timers).claimId}]
  /\ UNCHANGED <<storage, mounted, rand, ops, added, draftMap, everFailed>>

\* ClaimsApproval: the status filter
SetStatusFilter ==
  /\ UserEvent
  /\ page.route = "/claims-approval"
  /\ \E f \in {"all", "pending", "processing"} \ {page.statusFilter} :
       page' = [page EXCEPT !.statusFilter = f]
  /\ last' = [op |-> "ClaimsApproval.setStatusFilter"]
  /\ UNCHANGED timers
  /\ NoStoreChange

\* ClaimsApproval: handleSelectClaim, the checkbox of a listed row
SelectClaim ==
  /\ UserEvent
  /\ page.route = "/claims-approval"
  /\ \E c \in Range(filteredClaims(page, claims)) :
       page' = [page EXCEPT !.selectedClaims = Toggle(page.selectedClaims, c.id)]
  /\ last' = [op |-> "ClaimsApproval.handleSelectClaim"]
  /\ UNCHANGED timers
  /\ NoStoreChange

\* ClaimsApproval: handleSelectAll
SelectAll ==
  /\ UserEvent
  /\ page.route = "/claims-approval"
  /\ page' = [page EXCEPT !.selectedClaims =
                IF Len(page.selectedClaims) = Len(filteredClaims(page, claims))
                THEN <<>>
                ELSE NewSet([i \in 1..Len(filteredClaims(page, claims)) |->
                               filteredClaims(page, claims)[i].id])]
  /\ last' = [op |-> "ClaimsApproval.handleSelectAll"]
  /\ UNCHANGED timers
  /\ NoStoreChange

\* ClaimsApproval: handleBulkAction; the bar shows when a claim is selected
BulkAction ==
  /\ UserEvent
  /\ page.route = "/claims-approval"
  /\ page.selectedClaims # <<>>
  /\ \E status \in {"approved", "rejected"} :
     \E outcome \in BulkOutcomes(claims, page.selectedClaims, status, now) :
       /\ claims' = outcome.claims
       /\ now' = outcome.now
  /\ page' = [page EXCEPT !.selectedClaims = <<>>]
  /\ dirty' = TRUE
  /\ last' = [op |-> "ClaimsApproval.handleBulkAction", updated |-> Range(page.selectedClaims)]
  /\ UNCHANGED <<inProgressClaims, rand, timers, added, draftMap>>

\* ClaimsApproval: the Approve and Reject buttons of a listed pending row
RowButtonClick ==
  /\ UserEvent
  /\ page.route = "/claims-approval"
  /\ \E c \in Range(filteredClaims(page, claims)) :
       /\ c.status = "pending"
       /\ \E status \in {"approved", "rejected"} :
          \E ts \in Readings(claims, c.id, now) :
            LET after == claimsReducer(State,
                           [type |-> "UPDATE_CLAIM",
                            payload |-> [id |-> c.id, updates |-> [status |-> status]]], ts)
            IN /\ claims' = after.claims
               /\ inProgressClaims' = after.inProgressClaims
               /\ now' = LastReading(ts, now)
               /\ last' = [op |-> "ClaimsApproval.rowButton", updated |-> {c.id}]
  /\ dirty' = TRUE
  /\ UNCHANGED <<page, rand, timers, added, draftMap>>

(***************************************************************************)
(* Specifications                                                          *)
(***************************************************************************)
InitHistory ==
  /\ last = [op |-> "init"]
  /\ added = {}
  /\ draftMap = NoDrafts
  /\ everFailed = FALSE

\* The store operations on the tables of a mounted provider.
InitStore ==
  /\ claims = <<>>
  /\ inProgressClaims = <<>>
  /\ storage = EmptyStorage
  /\ mounted = TRUE
  /\ dirty = FALSE
  /\ now = 0
  /\ rand = 0
  /\ page = Dashboard
  /\ timers = <<>>
  /\ ops = MaxOps
  /\ InitHistory

NextStore ==
  \/ AddClaim
  \/ UpdateClaim
  \/ SaveInProgressClaim
  \/ DeleteInProgressClaim

SpecStore == InitStore /\ [][NextStore]_vars

\* The store operations with the persistence bridge: page loads and save effects.
InitPersist ==
  /\ claims = <<>>
  /\ inProgressClaims = <<>>
  /\ storage \in InitialStorages
  /\ mounted = FALSE
  /\ dirty = FALSE
  /\ now = 0
  /\ rand = 0
  /\ page = Dashboard
  /\ timers = <<>>
  /\ ops = MaxPersistOps
  /\ InitHistory

NextPersist ==
  \/ MountProvider
  \/ SaveEffect
  \/ AddClaim
  \/ UpdateClaim
  \/ SaveInProgressClaim
  \/ DeleteInProgressClaim

SpecPersist == InitPersist /\ [][NextPersist]_vars

\* The same with the scheduling of effects: React runs the effect of a committed
\* render. Liveness is checked on the whole behaviour graph, hence the smaller budget.
InitPersistFair ==
  /\ claims = <<>>
  /\ inProgressClaims = <<>>
  /\ storage \in InitialStorages
  /\ mounted = FALSE
  /\ dirty = FALSE
  /\ now = 0
  /\ rand = 0
  /\ page = Dashboard
  /\ timers = <<>>
  /\ ops = MaxFairOps
  /\ InitHistory

SpecPersistFair == InitPersistFair /\ [][NextPersist]_vars /\ WF_vars(SaveEffect)

\* The same relation started on every combination of absent, corrupt and valid
\* storage items.
InitStartup ==
  /\ claims = <<>>
  /\ inProgressClaims = <<>>
  /\ storage \in StartupStorages
  /\ mounted = FALSE
  /\ dirty = FALSE
  /\ now = 0
  /\ rand = 0
  /\ page = Dashboard
  /\ timers = <<>>
  /\ ops = MaxStartupOps
  /\ InitHistory

SpecStartup == InitStartup /\ [][NextPersist]_vars

\* The pages on a mounted provider whose tables were loaded from what an earlier
\* session stored.
InitUI ==
  /\ claims \in {<<>>, <<EarlierClaim>>}
  /\ inProgressClaims \in {<<>>, <<EarlierDraft>>}
  /\ storage = [claims |-> JSONstringify(claims),
                inProgress |-> JSONstringify(inProgressForStorage(inProgressClaims))]
  /\ mounted = TRUE
  /\ dirty = FALSE
  /\ now = 0
  /\ rand = 0
  /\ page = Dashboard
  /\ timers = <<>>
  /\ ops = MaxUIOps
  /\ last = [op |-> "init"]
  /\ added = {}
  /\ draftMap = [d \in {sessionId} |-> Find(inProgressClaims, d)]
  /\ everFailed = FALSE

NextUI ==
  \/ Navigate
  \/ NewClaimInputChange
  \/ StartAIAnalysis
  \/ FinishAIAnalysis
  \/ ToggleAssessmentApproval
  \/ ApproveAll
  \/ ClearAll
  \/ SaveProgress
  \/ NewClaimSubmit
  \/ EditClaimInputChange
  \/ EditClaimAssessmentToggle
  \/ EditClaimSubmit
  \/ StatusButtonClick
  \/ StatusUpdateTimeout
  \/ SetStatusFilter
  \/ SelectClaim
  \/ SelectAll
  \/ BulkAction
  \/ RowButtonClick

SpecUI == InitUI /\ [][NextUI]_vars

\* The new-claim workflow with the timers, the save effect, and page loads.
InitDraft ==
  /\ claims = <<>>
  /\ inProgressClaims \in {<<>>, <<EarlierDraft>>}
  /\ storage = [claims |-> JSONstringify(claims),
                inProgress |-> JSONstringify(inProgressForStorage(inProgressClaims))]
  /\ mounted = TRUE
  /\ dirty = FALSE
  /\ now = 0
  /\ rand = 0
  /\ page = pageEffects(NewClaimElement, claims, inProgressClaims, {})
  /\ timers = <<>>
  /\ ops = MaxDraftOps
  /\ last = [op |-> "init"]
  /\ added = {}
  /\ draftMap = [d \in {sessionId} |-> Find(inProgressClaims, d)]
  /\ everFailed = FALSE

NextDraft ==
  \/ LoadPage
  \/ SaveEffect
  \/ Tick
  \/ AutoSave
  \/ Unload
  \/ Navigate
  \/ NewClaimInputChange
  \/ StartAIAnalysis
  \/ FinishAIAnalysis
  \/ ToggleAssessmentApproval
  \/ ApproveAll
  \/ ClearAll
  \/ SaveProgress
  \/ NewClaimSubmit

SpecDraft == InitDraft /\ [][NextDraft]_vars

\* The media upload of the new-claim form and of the edit-claim form.
InitUpload ==
  /\ claims = <<EarlierClaim>>
  /\ inProgressClaims = <<>>
  /\ storage = [claims |-> JSONstringify(claims),
                inProgress |-> JSONstringify(inProgressForStorage(inProgressClaims))]
  /\ mounted = TRUE
  /\ dirty = FALSE
  /\ now = 0
  /\ rand = 0
  /\ page \in {pageEffects(NewClaimElement, claims, inProgressClaims, {}),
                initEffect(EditClaimElement(EarlierClaim.id), getClaim(EarlierClaim.id))}
  /\ timers = <<>>
  /\ ops = MaxUploadOps
  /\ last = [op |-> "init"]
  /\ added = {}
  /\ draftMap = [d \in {sessionId} |-> <<>>]
  /\ everFailed = FALSE

NextUpload ==
  \/ HandleMediaUpload
  \/ ReaderOnload

SpecUpload == InitUpload /\ [][NextUpload]_vars

\* The same with the browser's scheduling: a FileReader that was started ends.
SpecUploadFair == SpecUpload /\ WF_vars(ReaderOnload)

\* The content of the new-claim form and the drafts saved from it.
InitContent ==
  /\ claims = <<>>
  /\ inProgressClaims \in {<<>>, <<EarlierDraft>>}
  /\ storage = [claims |-> JSONstringify(claims),
                inProgress |-> JSONstringify(inProgressForStorage(inProgressClaims))]
  /\ mounted = TRUE
  /\ dirty = FALSE
  /\ now = 0
  /\ rand = 0
  /\ page = pageEffects(NewClaimElement, claims, inProgressClaims, {})
  /\ timers = <<>>
  /\ ops = MaxContentOps
  /\ last = [op |-> "init"]
  /\ added = {}
  /\ draftMap = [d \in {sessionId} |-> Find(inProgressClaims, d)]
  /\ everFailed = FALSE

NextContent ==
  \/ NewClaimInputChange
  \/ StartAIAnalysis
  \/ FinishAIAnalysis
  \/ ToggleAssessmentApproval
  \/ ApproveAll
  \/ ClearAll
  \/ ImportTicket
  \/ ClearImportedData
  \/ LoadSavedProgress
  \/ SaveProgress
  \/ Tick
  \/ AutoSave
  \/ Unload

SpecContent == InitContent /\ [][NextContent]_vars

\* The mock analysis of the two forms: the application was opened on the new-claim
\* page, or on the edit page of an id the table does not hold (a claim of the table
\* has aiAnalysisComplete true, which hides the button) and one photo was uploaded
\* there, which enables the button. A timeout that is due runs.
InitAnalysis ==
  /\ claims = <<>>
  /\ inProgressClaims \in {<<>>, <<EarlierDraft>>}
  /\ storage = [claims |-> JSONstringify(claims),
                inProgress |-> JSONstringify(inProgressForStorage(inProgressClaims))]
  /\ mounted = TRUE
  /\ dirty = FALSE
  /\ now = 0
  /\ rand = 0
  /\ page \in {pageEffects(NewClaimElement, claims, inProgressClaims, {}),
                [initEffect(EditClaimElement(MissingId), getClaim(MissingId))
                   EXCEPT !.photos = <<"data:a">>]}
  /\ timers = <<>>
  /\ ops = MaxAnalysisOps
  /\ last = [op |-> "init"]
  /\ added = {}
  /\ draftMap = [d \in {sessionId} |-> Find(inProgressClaims, d)]
  /\ everFailed = FALSE

NextAnalysis ==
  \/ Navigate
  \/ StartAIAnalysis
  \/ FinishAIAnalysis
  \/ ImportTicket
  \/ ClearImportedData
  \/ LoadSavedProgress
  \/ EditClaimStartAIAnalysis
  \/ EditClaimFinishAIAnalysis

SpecAnalysis ==
  /\ InitAnalysis
  /\ [][NextAnalysis]_vars
  /\ WF_vars(FinishAIAnalysis)
  /\ WF_vars(EditClaimFinishAIAnalysis)

\* The open new-claim page with a user who may go on editing for ever. Time passes,
\* and a timer callback or an effect that is due runs.
InitAutoSave ==
  /\ claims = <<>>
  /\ inProgressClaims \in {<<>>, <<EarlierDraft>>}
  /\ storage = [claims |-> JSONstringify(claims),
                inProgress |-> JSONstringify(inProgressForStorage(inProgressClaims))]
  /\ mounted = TRUE
  /\ dirty = FALSE
  /\ now = 0
  /\ rand = 0
  /\ page = pageEffects(NewClaimElement, claims, inProgressClaims, {})
  /\ timers = <<>>
  /\ ops = -1
  /\ last = [op |-> "init"]
  /\ added = {}
  /\ draftMap = [d \in {sessionId} |-> Find(inProgressClaims, d)]
  /\ everFailed = FALSE

NextAutoSave ==
  \/ SaveEffect
  \/ Tick
  \/ AutoSave
  \/ NewClaimInputChange
  \/ SaveProgress

SpecAutoSave ==
  /\ InitAutoSave
  /\ [][NextAutoSave]_vars
  /\ WF_vars(Tick)
  /\ WF_vars(AutoSave)
  /\ WF_vars(SaveEffect)

(***************************************************************************)
(* The claims                                                              *)
(***************************************************************************)
Ids(table) == {table[i].id : i \in 1..Len(table)}

\* claim c with the keys of patch written over it, updatedAt aside
Overwritten(c, after, patch) ==
  /\ DOMAIN after = (DOMAIN c) \cup (DOMAIN patch)
  /\ \A k \in (DOMAIN patch) \ {"updatedAt"} : after[k] = patch[k]
  /\ \A k \in (DOMAIN c) \ ((DOMAIN patch) \cup {"updatedAt"}) : after[k] = c[k]

\* C1 as stated: updateClaim(C.id, P) leaves under C's id the claim C with P's keys
\* overwritten and an updatedAt strictly greater than before; every other claim
\* keeps its value and its position.
C1_UpdateStrictlyLater ==
  [][last'.op = "updateClaim" =>
       /\ Len(claims') = Len(claims)
       /\ \A i \in 1..Len(claims) :
            IF claims[i].id = last'.id
            THEN /\ claims'[i].id = claims[i].id
                 /\ Overwritten(claims[i], claims'[i], last'.updates)
                 /\ claims'[i].updatedAt > claims[i].updatedAt
            ELSE claims'[i] = claims[i]]_vars

\* C1 as amended: updateClaim(C.id, P) replaces each claim whose id is C.id, in
\* place, by that claim with P's keys overwritten (the id too when P has one),
\* except that updatedAt is the reading of the clock at the update, which is not
\* earlier than the updatedAt before and may equal it; every claim with another id
\* keeps its value and its position.
C1_UpdateMergesPatch ==
  [][last'.op = "updateClaim" =>
       /\ Len(claims') = Len(claims)
       /\ \A i \in 1..Len(claims) :
            IF claims[i].id = last'.id
            THEN /\ Overwritten(claims[i], claims'[i], last'.updates)
                 /\ claims'[i].updatedAt >= claims[i].updatedAt
                 /\ claims'[i].updatedAt \in now..now'
            ELSE claims'[i] = claims[i]]_vars

\* an updateClaim has replaced the status of one of two claims, in a later millisecond
C1_Witness ==
  /\ last.op = "updateClaim"
  /\ last.updates = [status |-> "approved"]
  /\ Len(claims) = 2
  /\ \E i \in 1..2 :
       /\ claims[i].id = last.id
       /\ claims[i].status = "approved"
       /\ claims[i].updatedAt > claims[i].createdAt
       /\ claims[3 - i].status = "pending"

\* C2 as stated: the claim addClaim puts in the table has a non-empty id that no
\* other claim of the table has, createdAt equal to updatedAt, and status "pending".
C2_AddedClaimIsFresh ==
  last.op = "addClaim" =>
    /\ claims # <<>>
    /\ claims[1].id # <<>>
    /\ \A i \in 2..Len(claims) : claims[i].id # claims[1].id
    /\ claims[1].createdAt = claims[1].updatedAt
    /\ claims[1].status = "pending"

\* C6: the draft table is a map from id to the payload of the last save of that id
\* that no delete followed: at most one draft per id, getInProgressClaim returns
\* that payload or nothing, and deleting an absent id changes neither table.
C6_DraftTableIsMap ==
  /\ [](\A d \in DraftIds :
          /\ getInProgressClaim(d) = draftMap[d]
          /\ Cardinality({i \in 1..Len(inProgressClaims) : inProgressClaims[i].id = d}) <= 1)
  /\ [][last'.op = "deleteInProgressClaim" /\ ~last'.present =>
          inProgressClaims' = inProgressClaims /\ claims' = claims]_vars

\* a second save of an id has replaced the draft saved before, beside another draft
C6_Witness ==
  /\ last.op = "saveInProgressClaim"
  /\ last.replaced
  /\ Len(inProgressClaims) = 2
  /\ getInProgressClaim(last.draft.id) = <<last.draft>>
  /\ last.draft.formData = [customerName |-> "A"]

\* C8 as stated: a claim that was added stays in the table, under the id and with
\* the createdAt it was given at creation.
C8_AddedClaimsStay ==
  \A e \in added :
    \E i \in 1..Len(claims) : claims[i].id = e.id /\ claims[i].createdAt = e.createdAt

\* C10: updateClaim of an id no claim has changes neither the claims table nor the
\* draft table.
C10_UpdateMissingIsNoOp ==
  [][last'.op = "updateClaim" /\ last'.id \notin Ids(claims) =>
       claims' = claims /\ inProgressClaims' = inProgressClaims]_vars

\* updateClaim("missing-id", ...) has run on non-empty tables
C10_Witness ==
  /\ last.op = "updateClaim"
  /\ last.id = MissingId
  /\ last.id \notin Ids(claims)
  /\ claims # <<>>
  /\ inProgressClaims # <<>>

\* a draft as it is after a round trip: the same fields, the same members
SameDraft(a, b) ==
  /\ DOMAIN a = DOMAIN b
  /\ \A k \in (DOMAIN a) \ {"approvedAssessments"} : a[k] = b[k]
  /\ Range(a.approvedAssessments) = Range(b.approvedAssessments)

InSync ==
  storage = [claims |-> JSONstringify(claims),
             inProgress |-> JSONstringify(inProgressForStorage(inProgressClaims))]

\* C7: every change of a table by a store operation is followed by a run of the save
\* effect, and unless store operations or page loads go on forever, from some point
\* on the storage records are the serialization of the tables, provided no
\* storage write has failed.
C7_StorageFollowsTables ==
  /\ [][last'.op # "mount" /\ (claims' # claims \/ inProgressClaims' # inProgressClaims)
          => dirty']_vars
  /\ (dirty ~> ~dirty)
  /\ \/ []<><<ops' # ops \/ last'.op = "mount">>_vars
     \/ <>[](~mounted \/ everFailed \/ InSync)

\* a save effect has written both tables, neither empty, and no write ever failed
C7_Witness ==
  /\ last.op = "save"
  /\ ~everFailed
  /\ InSync
  /\ claims # <<>>
  /\ inProgressClaims # <<>>

\* the sum of estimatedCost over the assessments at the indices in S
RECURSIVE CostOver(_, _)
CostOver(assessments, S) ==
  IF S = {} THEN 0
  ELSE LET i == CHOOSE i \in S : TRUE
       IN assessments[i].estimatedCost + CostOver(assessments, S \ {i})

\* the indices of the assessments of a form whose id is in its approvedAssessments
ApprovedIndices(form) ==
  {i \in 1..Len(form.damageAssessments) :
     form.damageAssessments[i].id \in Range(form.approvedAssessments)}

\* C4 as stated: every claim of the table has totalEstimatedCost equal to the sum of
\* estimatedCost over the damageAssessments it stores, and the claim a new-claim
\* submission or an edit-claim save has just written stores no assessment the
\* user left unapproved.
C4_TotalIsSumOfStored ==
  /\ \A i \in 1..Len(claims) :
       claims[i].totalEstimatedCost
         = CostOver(claims[i].damageAssessments, 1..Len(claims[i].damageAssessments))
  /\ last.op = "NewClaim.handleSubmit" =>
       \A a \in Range(claims[1].damageAssessments) :
         a.id \in Range(last.form.approvedAssessments)
  /\ last.op = "EditClaim.handleSubmit" =>
       \A i \in 1..Len(claims) :
         claims[i].id = last.form.claimId =>
           \A a \in Range(claims[i].damageAssessments) :
             a.id \in Range(last.form.approvedAssessments)

\* the transitions of the status of a claim that the pages offer
StatusStep(from, to) ==
  \/ from = to
  \/ from = "pending" /\ to \in {"processing", "approved", "rejected"}
  \/ from = "processing" /\ to \in {"approved", "rejected"}

\* C5 as stated: under the operations of the pages the status of a claim changes
\* only from pending to processing, approved or rejected, or from processing to
\* approved or rejected; an approved or rejected claim keeps its status.
C5_StatusTransitions ==
  [][\A i \in 1..Len(claims) : \A j \in 1..Len(claims') :
       claims[i].id = claims'[j].id => StatusStep(claims[i].status, claims'[j].status)]_vars

\* C9: the claim a new-claim submission adds stores exactly the assessments of the
\* form whose id is in approvedAssessments, in the form's order, and its
\* totalEstimatedCost is the sum of their estimatedCost; costs 100, 200, 300 with
\* the first and the third approved give 400.
C9_SubmitStoresApproved ==
  last.op = "NewClaim.handleSubmit" =>
    LET form == last.form
        K == ApprovedIndices(form)
        stored == claims[1].damageAssessments
    IN /\ Len(stored) = Cardinality(K)
       /\ Range(stored) = {form.damageAssessments[i] : i \in K}
       /\ \A i, j \in 1..Len(stored) :
            i < j => \E k, l \in K : /\ k < l
                                     /\ form.damageAssessments[k] = stored[i]
                                     /\ form.damageAssessments[l] = stored[j]
       /\ claims[1].totalEstimatedCost = CostOver(form.damageAssessments, K)
       /\ ([i \in 1..Len(form.damageAssessments) |-> form.damageAssessments[i].estimatedCost]
             = <<100, 200, 300>> /\ K = {1, 3}
           => claims[1].totalEstimatedCost = 400)

\* a form with costs 100, 200, 300, the first and the third approved, was submitted
C9_Witness ==
  /\ last.op = "NewClaim.handleSubmit"
  /\ [i \in 1..Len(last.form.damageAssessments) |->
        last.form.damageAssessments[i].estimatedCost] = <<100, 200, 300>>
  /\ ApprovedIndices(last.form) = {1, 3}
  /\ Len(claims[1].damageAssessments) = 2
  /\ claims[1].totalEstimatedCost = 400

\* Dashboard's recentClaims: state.claims.slice(0, 5)
RecentCount == 5
recentClaims(cs) == SubSeq(cs, 1, IF Len(cs) < RecentCount THEN Len(cs) ELSE RecentCount)

\* C11: addClaim puts the new claim at the head of the claims table, with the given
\* policyNumber, keeps the claims that were there behind it in their order, and
\* makes the table one longer; so the claims this session added stand most
\* recently added first, and the Dashboard's recent claims begin with the new one.
C11_AddClaimPrepends ==
  /\ [][last'.op = "addClaim" =>
          /\ Len(claims') = Len(claims) + 1
          /\ claims'[1].policyNumber = last'.claimData.policyNumber
          /\ \A i \in 1..Len(claims) : claims'[i + 1] = claims[i]
          /\ recentClaims(claims')[1] = claims'[1]
          /\ (claims = <<>> => Len(claims') = 1)]_vars
  /\ [](\A i, j \in 1..Len(claims) :
          i < j /\ claims[i].id[1] >= 0 /\ claims[j].id[1] >= 0
            => claims[i].id[2] > claims[j].id[2])

\* addClaim has put a claim for POL-2 before an older claim for POL-1
C11_Witness ==
  /\ last.op = "addClaim"
  /\ Len(claims) = 2
  /\ claims[1].policyNumber = "POL-2"
  /\ claims[2].policyNumber = "POL-1"
  /\ last.claimData.policyNumber = "POL-2"

\* C12: every claim has updatedAt >= createdAt, and every updateClaim the pages
\* make on a claim of the table leaves that claim's updatedAt at the reading of the
\* clock taken when the reducer applies the update, not earlier than before, also
\* when the patch carries an updatedAt of its own (edit-claim save, bulk actions).
C12_UpdatedAtIsClock ==
  /\ [](\A i \in 1..Len(claims) : claims[i].updatedAt >= claims[i].createdAt)
  /\ []["updated" \in DOMAIN last' =>
          \A i \in 1..Len(claims) :
            claims[i].id \in last'.updated =>
              /\ claims'[i].updatedAt \in now..now'
              /\ claims'[i].updatedAt >= claims[i].updatedAt
              /\ (Cardinality(last'.updated) = 1 => claims'[i].updatedAt = now')]_vars

\* an edit-claim save whose patch carried an updatedAt read one millisecond before
\* the reducer's reading: the claim has the reducer's
C12_Witness ==
  /\ last.op = "EditClaim.handleSubmit"
  /\ \E i \in 1..Len(claims) :
       /\ claims[i].id = last.form.claimId
       /\ claims[i].updatedAt = now
       /\ claims[i].updatedAt > last.updates.updatedAt

\* C13: loadFromStorage yields its dispatches (none, one or two) for whatever the
\* two items hold, and a page load completes; a key that is absent, and a key whose
\* text is not valid JSON, leave its table empty after the load.
C13_LoadNeverThrows ==
  /\ [](Len(loadFromStorage(storage)) \in 0..2)
  /\ [][last'.op = "mount" =>
          /\ mounted'
          /\ (storage.claims.kind \in {"absent", "corrupt"} => claims' = <<>>)
          /\ (storage.inProgress.kind \in {"absent", "corrupt"} => inProgressClaims' = <<>>)]_vars

\* a page load found a valid claims item and a corrupt draft item: the claims are
\* loaded, the draft table is empty
C13_Witness ==
  /\ last.op = "mount"
  /\ last.found = [claims |-> "json", inProgress |-> "corrupt"]
  /\ claims # <<>>
  /\ inProgressClaims = <<>>

\* C14: a save whose storage write fails completes like any other save, and the
\* claims table and the draft table keep the values the store operations gave
\* them; nothing is rolled back to what storage holds.
C14_FailedSaveKeepsTables ==
  [][last'.op = "save" /\ last'.failing # 0 =>
       /\ claims' = claims
       /\ inProgressClaims' = inProgressClaims
       /\ mounted'
       /\ (last'.failing = 1 => storage' = storage)]_vars

\* a save failed after a claim was added: the table holds the claim, storage does not
C14_Witness ==
  /\ last.op = "save"
  /\ last.failing = 1
  /\ claims # <<>>
  /\ storage.claims = JSONstringify(<<>>)

\* C15: a new-claim submission that passes validation leaves the new claim at the
\* head of the claims table and no draft under the session id; the successful save
\* that follows it writes both to storage; and while the application shows another
\* page than new-claim, no auto-save and no unload save runs and no draft under the
\* session id appears.
C15_SubmitClearsDraft ==
  /\ [][last'.op = "NewClaim.handleSubmit" =>
          /\ Len(claims') = Len(claims) + 1
          /\ claims'[1].policyNumber = page.formData.policyNumber
          /\ claims'[1].customerName = page.formData.customerName
          /\ Find(inProgressClaims', sessionId) = <<>>
          /\ page'.route = "/"]_vars
  /\ [][last.op = "NewClaim.handleSubmit" /\ last'.op = "save" /\ last'.failing = 0 =>
          /\ storage'.claims = JSONstringify(claims)
          /\ Find(JSONparse(storage'.inProgress), sessionId) = <<>>]_vars
  /\ [][mounted /\ page.route # "/new-claim" =>
          /\ last'.op # "NewClaim.autoSave"
          /\ (last'.op = "unload" => ~last'.saved)
          /\ (Find(inProgressClaims, sessionId) = <<>> =>
                Find(inProgressClaims', sessionId) = <<>>)]_vars

\* the stored draft was submitted as the first user event and the save succeeded:
\* storage holds the claim and no draft
C15_Witness ==
  /\ last.op = "save"
  /\ last.failing = 0
  /\ ops = MaxDraftOps - 1
  /\ page.route = "/"
  /\ Len(claims) = 1
  /\ claims[1].policyNumber = EarlierDraft.formData.policyNumber
  /\ storage.claims = JSONstringify(claims)
  /\ storage.inProgress = JSONstringify(<<>>)

C17_InvalidSubmitChangesNothing ==
  /\ [][last'.op \in {"NewClaim.handleSubmit.rejected", "EditClaim.handleSubmit.rejected"} =>
          /\ claims' = claims
          /\ inProgressClaims' = inProgressClaims
          /\ page'.route = page.route
          /\ \A f \in DOMAIN RequiredFields :
               page.formData[f] = "" => f \in DOMAIN page'.errors /\ page'.errors[f] # ""]_vars
  /\ [][last'.op \in {"NewClaim.handleSubmit", "EditClaim.handleSubmit"} =>
          \A f \in DOMAIN RequiredFields : page.formData[f] # ""]_vars

\* the new-claim form was submitted with the customer name empty and the policy
\* number filled in: one message is set, the stored draft is still in the table
C17_Witness ==
  /\ last.op = "NewClaim.handleSubmit.rejected"
  /\ page.formData.customerName = ""
  /\ page.formData.policyNumber # ""
  /\ DOMAIN page.errors = {"customerName"}
  /\ page.errors.customerName = RequiredFields.customerName
  /\ Find(inProgressClaims, sessionId) # <<>>

\* C18: whenever the new-claim page is open with hasUnsavedChanges true, the
\* auto-save timer later saves a draft, unless the page was closed or the changes
\* were saved or dropped before.
C18_AutoSaveComes ==
  (mounted /\ page.route = "/new-claim" /\ page.hasUnsavedChanges)
    ~> \/ last.op = "NewClaim.autoSave"
       \/ ~(mounted /\ page.route = "/new-claim" /\ page.hasUnsavedChanges)

\* the completion orders of n reads
CompletionOrders(n) == {o \in [1..n -> 1..n] : \A i, j \in 1..n : o[i] = o[j] => i = j}

\* what the readers of files push when they complete in this order
RECURSIVE PushedInOrder(_, _)
PushedInOrder(u, order) ==
  IF order = <<>> THEN u ELSE PushedInOrder(onload(u, Head(order)), Tail(order))

\* C19, for an upload all of whose reads give a result:
\* an onload that is not the last of its upload leaves photos and videos as
\* they are; the last one appends the results of all image files of the FileList to
\* photos and of all video files to videos in that one step; and what it appends is
\* what every completion order of the reads appends.
C19_UploadCommitsOnceInOneOrder ==
  [][/\ last'.op = "FileReader.onload"
     /\ \A i \in 1..Len(last'.upload.files) : last'.upload.files[i].result # ""
     =>
       LET u == last'.upload
           n == Len(u.files)
       IN /\ last'.committed = (u.reading = {last'.file})
          /\ ~last'.committed => page'.photos = page.photos /\ page'.videos = page.videos
          /\ last'.committed =>
               /\ Len(page'.photos) - Len(page.photos)
                    = Cardinality({i \in 1..n : isImage(u.files[i])})
               /\ Len(page'.videos) - Len(page.videos)
                    = Cardinality({i \in 1..n : isVideo(u.files[i])})
               /\ \A order \in CompletionOrders(n) :
                    LET v == PushedInOrder(newUpload(u.files), order)
                    IN /\ page'.photos = page.photos \o v.newPhotos
                       /\ page'.videos = page.videos \o v.newVideos]_vars

\* the approved ids of a draft or form are ids of its damage assessments
ApprovedAreAssessed(d) ==
  Range(d.approvedAssessments) \subseteq Range(AssessmentIds(d.damageAssessments))

\* C20: every draft the new-claim page saves, by Save Progress, by the auto-save
\* timer or on unload, and every draft in the table under the session id, has
\* approvedAssessments within the ids of its damageAssessments, and so has the form.
C20_SavedApprovalsAreAssessed ==
  /\ (last.op \in {"NewClaim.saveProgress", "NewClaim.autoSave"} => ApprovedAreAssessed(last.draft))
  /\ (last.op = "unload" /\ last.saved => ApprovedAreAssessed(last.draft))
  /\ \A i \in 1..Len(inProgressClaims) : ApprovedAreAssessed(inProgressClaims[i])
  /\ (page.route = "/new-claim" => ApprovedAreAssessed(page))

\* the timer saved a draft after an analysis of this session and a toggle: three
\* assessments, two of them approved
C20_Witness ==
  /\ last.op = "NewClaim.autoSave"
  /\ rand = 3
  /\ Len(last.draft.damageAssessments) = 3
  /\ Len(last.draft.approvedAssessments) = 2
  /\ Find(inProgressClaims, sessionId) = <<last.draft>>

\* the form shows a running analysis
Analyzing == mounted /\ page.route \in {"/new-claim", "/edit-claim"} /\ page.isAnalyzing

\* the form holds the result of an analysis: three assessments with the canned
\* costs, all of them approved, and nothing else
AnalysisResult(p) ==
  /\ ~p.isAnalyzing
  /\ p.analysisComplete
  /\ Len(p.damageAssessments) = 3
  /\ [i \in 1..3 |-> p.damageAssessments[i].estimatedCost] = <<850, 320, 450>>
  /\ Cardinality(Range(AssessmentIds(p.damageAssessments))) = 3
  /\ Len(p.approvedAssessments) = 3
  /\ Range(p.approvedAssessments) = Range(AssessmentIds(p.damageAssessments))

\* C21 as stated: a started analysis is followed by a form that holds its result.
C21_AnalysisCompletes ==
  Analyzing ~> (mounted /\ page.route \in {"/new-claim", "/edit-claim"} /\ AnalysisResult(page))

\* C21 for a form that stays mounted: while the form that started an analysis is
\* mounted no step but the end of the analysis ends isAnalyzing; the analysis ends
\* unless the form is left first; and its end leaves exactly the three canned
\* assessments, none of the earlier ones, all three approved.
C21_AnalysisCompletesWhileMounted ==
  /\ [][Analyzing /\ page'.route = page.route /\ mounted'
          /\ last'.op \notin {"NewClaim.analysisDone", "EditClaim.analysisDone"}
          => page'.isAnalyzing]_vars
  /\ [][last'.op \in {"NewClaim.analysisDone", "EditClaim.analysisDone"} =>
          /\ Analyzing
          /\ AnalysisResult(page')
          /\ Range(page'.damageAssessments) \cap Range(page.damageAssessments) = {}]_vars
  /\ (Analyzing ~> (~Analyzing))

\* an analysis of the new-claim form ended while the form held the three assessments
\* of the saved draft: the form holds the three new ones
C21_Witness ==
  /\ last.op = "NewClaim.analysisDone"
  /\ Len(last.previous) = 3
  /\ AnalysisResult(page)
  /\ Range(page.damageAssessments) \cap Range(last.previous) = {}

\* C22 as stated: the page load that mounts ClaimsProvider leaves a storage record
\* that holds a non-empty table as it is.
C22_MountKeepsStoredTables ==
  [][last'.op = "mount" =>
       /\ (storage.claims.kind = "json" /\ storage.claims.val # <<>>
             => storage'.claims = storage.claims)
       /\ (storage.inProgress.kind = "json" /\ storage.inProgress.val # <<>>
             => storage'.inProgress = storage.inProgress)]_vars

\* C23 as stated: a saveToStorage attempt leaves the two storage records as
\* serializations of one snapshot of the tables: both are written from the tables
\* of the render, or both are left as the last attempt left them.
C23_SaveWritesOneSnapshot ==
  [][last'.op = "save" =>
       \/ /\ storage'.claims = JSONstringify(claims)
          /\ storage'.inProgress = JSONstringify(inProgressForStorage(inProgressClaims))
       \/ storage' = storage]_vars

\* C24 as stated, for a change requested on the approval page while a change
\* requested earlier on the details page is still waiting: when the waiting change
\* is applied, the claim keeps the status of the later request.
C24_LastRequestedStatusWins ==
  [][/\ last'.op = "ClaimDetails.statusUpdateDone"
     /\ last.op \in {"ClaimsApproval.rowButton", "ClaimsApproval.handleBulkAction"}
     /\ last'.updated \subseteq last.updated
     => \A id \in last'.updated :
          [i \in 1..Len(getClaim(id)') |-> getClaim(id)'[i].status]
            = [i \in 1..Len(getClaim(id)) |-> getClaim(id)[i].status]]_vars

\* C25 as stated: a delayed status update that is applied while the new-claim form
\* is open leaves the form's values and hasUnsavedChanges as they are.
C25_StoreChangeKeepsForm ==
  [][last'.op = "ClaimDetails.statusUpdateDone" /\ page.route = "/new-claim" =>
       /\ page'.formData = page.formData
       /\ page'.damageAssessments = page.damageAssessments
       /\ page'.approvedAssessments = page.approvedAssessments
       /\ page'.analysisComplete = page.analysisComplete
       /\ page'.hasUnsavedChanges = page.hasUnsavedChanges]_vars

\* C26 as stated: a new-claim form without unsaved changes shows the draft saved
\* under the session id, when there is one.
C26_CleanFormShowsDraft ==
  /\ mounted
  /\ page.route = "/new-claim"
  /\ ~page.hasUnsavedChanges
  /\ getInProgressClaim(sessionId) # <<>>
  => LET draft == getInProgressClaim(sessionId)[1]
     IN /\ page.formData = Merge(emptyFormData, draft.formData)
        /\ page.damageAssessments = draft.damageAssessments
        /\ page.analysisComplete = draft.analysisComplete
        /\ Range(page.approvedAssessments) = Range(draft.approvedAssessments)

\* C27 as stated: a submission of the edit-claim form as the form was filled from
\* the claim leaves the claim as it was, but for updatedAt.
C27_UnchangedEditKeepsClaim ==
  [][/\ last'.op = "EditClaim.handleSubmit"
     /\ page = initEffect(EditClaimElement(page.claimId), getClaim(page.claimId))
     => \A i \in 1..Len(claims) :
          /\ DOMAIN claims'[i] = DOMAIN claims[i]
          /\ \A k \in DOMAIN claims[i] \ {"updatedAt"} : claims'[i][k] = claims[i][k]]_vars

\* C28 as stated: a page load reads each table that is stored as valid JSON,
\* whatever the other record holds.
C28_TablesLoadIndependently ==
  [][last'.op = "mount" =>
       /\ (storage.inProgress.kind = "json"
             => inProgressClaims' = parsedInProgress(JSONparse(storage.inProgress)))
       /\ (storage.claims.kind = "json" => claims' = JSONparse(storage.claims))]_vars

\* C29 as stated: an upload whose readers were started is committed: it does not
\* stay among the uploads that wait for their readers.
C29_UploadIsCommitted ==
  (page.route \in {"/new-claim", "/edit-claim"} /\ page.uploads # <<>>)
    ~> (page.route \in {"/new-claim", "/edit-claim"} /\ page.uploads = <<>>)

====
